---- MODULE Spec2Model ----
(***************************************************************************)
(* Model of the image shortcode of imdexer-eleventy:                       *)
(*   src/src/utils.js            joinPosixPath                             *)
(*   src/src/image-shortcode.js  addImageShortcode, imageShortcode,        *)
(*                               getImageData, generateImageTag            *)
(*                                                                         *)
(* JavaScript strings are sequences of one-character strings.  The values  *)
(* undefined, true and false are one-element sequences whose element is no *)
(* character, so that every JavaScript value of the model is a sequence    *)
(* and "undefined" + s is Undefined \o s, as String(undefined) + s is.     *)
(***************************************************************************)
EXTENDS Integers, Sequences, FiniteSets, TLC

VARIABLES pc, zones, call, result

vars == <<pc, zones, call, result>>

\* ------------------------------------------------------------------ bounds
MaxLen == 3
MaxZones == 2
MaxFiles == 2
MaxW == 2

\* ------------------------------------------------------- JavaScript values
Undefined == <<"undefined">>
True == <<"true">>
False == <<"false">>

\* ToBoolean of a string, a boolean or undefined
Truthy(v) == v # Undefined /\ v # <<>> /\ v # False

\* a parameter default (lazy = false, sizes = 'auto') applies to undefined only
Default(v, d) == IF v = Undefined THEN d ELSE v

\* String.prototype.startsWith
startsWith(s, p) == Len(p) <= Len(s) /\ SubSeq(s, 1, Len(p)) = p

\* String.prototype.slice(n)
slice(s, n) == SubSeq(s, n + 1, Len(s))

\* path1.replace(/\/$/, '')
replaceTrailingSlash(s) ==
  IF Len(s) > 0 /\ s[Len(s)] = "/" THEN SubSeq(s, 1, Len(s) - 1) ELSE s

\* path2.replace(/^\//, '')
replaceLeadingSlash(s) ==
  IF Len(s) > 0 /\ s[1] = "/" THEN SubSeq(s, 2, Len(s)) ELSE s

\* a join that inserts the separator without trimming the two sides
joinPosixPathNoTrim(path1, path2) ==
  IF ~Truthy(path1) \/ ~Truthy(path2)
  THEN path1 \o path2
  ELSE path1 \o <<"/">> \o path2

\* ------------------------------------------------------------ src/utils.js
\* joinPosixPath(path1, path2)
joinPosixPath(path1, path2) ==
  IF ~Truthy(path1) \/ ~Truthy(path2)
  THEN path1 \o path2
  ELSE replaceTrailingSlash(path1) \o <<"/">> \o replaceLeadingSlash(path2)

\* ------------------------------------------------------------- the results
\* throw new Error(...): the five messages of image-shortcode.js, and the
\* TypeError the engine raises itself
Throw(e, subject) == [kind |-> "throw", error |-> e, subject |-> subject]

ZoneNotFoundError == "No zone found for image"
MissingIndexError == "requires an imdexer object"
MissingAltError == "Missing alt attribute for image"
MissingSrcError == "Missing src attribute for image"
MissingMetadataError == "Missing image data for image"
TypeError == "TypeError"

NamedErrors ==
  {ZoneNotFoundError, MissingIndexError, MissingAltError, MissingSrcError,
   MissingMetadataError}

\* ------------------------------------------------- src/image-shortcode.js
\* a scan that lets the last matching zone win
zoneLoopLastWins(src, zs, i) ==
  IF Len(zs) = 0 THEN Throw(ZoneNotFoundError, src)
  ELSE IF src = Undefined THEN Throw(TypeError, src)
  ELSE LET M == {j \in 1..Len(zs) : startsWith(src, zs[j].prefix)}
           k == CHOOSE j \in M : \A l \in M : l <= j
       IN IF M = {} THEN Throw(ZoneNotFoundError, src)
          ELSE [kind |-> "data",
                imageSrc |-> slice(src, Len(zs[k].prefix)),
                imdexer |-> zs[k].imdexer,
                baseUrl |-> zs[k].baseUrl]

\* the for..of loop of getImageData from zone i on
RECURSIVE zoneLoop(_, _, _)
zoneLoop(src, zs, i) ==
  IF i > Len(zs) THEN Throw(ZoneNotFoundError, src)
  ELSE IF src = Undefined THEN Throw(TypeError, src)
  ELSE IF startsWith(src, zs[i].prefix)
  THEN [kind |-> "data",
        imageSrc |-> slice(src, Len(zs[i].prefix)),
        imdexer |-> zs[i].imdexer,
        baseUrl |-> zs[i].baseUrl]
  ELSE zoneLoop(src, zs, i + 1)

\* getImageData without the single-zone shortcut
getImageDataAlwaysScans(src, zs) == zoneLoop(src, zs, 1)

getImageData(src, zs) ==
  IF Len(zs) = 1
  THEN [kind |-> "data", imageSrc |-> src, imdexer |-> zs[1].imdexer,
        baseUrl |-> zs[1].baseUrl]
  ELSE zoneLoop(src, zs, 1)

\* imdexer[src]: the metadata under key src, if the index has that key
hasKey(imdexer, src) == src \in DOMAIN imdexer.map

\* Object.keys(data.files).map(...).join(', '): one "<url> <width>w" entry
\* per file, in key iteration order
srcsetOf(baseUrl, files) ==
  [i \in 1..Len(files) |-> <<joinPosixPath(baseUrl, files[i].file), files[i].width>>]

\* a reduction that keeps the accumulator on equal widths (>= for >)
RECURSIVE reduceLargestKeepsFirst(_, _, _)
reduceLargestKeepsFirst(files, acc, i) ==
  IF i > Len(files) THEN acc
  ELSE reduceLargestKeepsFirst(files,
                               IF files[acc].width >= files[i].width THEN acc ELSE i,
                               i + 1)

\* Object.keys(data.files).reduce((a, b) => width(a) > width(b) ? a : b),
\* as positions in key iteration order: acc is a, i is b
RECURSIVE reduceLargest(_, _, _)
reduceLargest(files, acc, i) ==
  IF i > Len(files) THEN acc
  ELSE reduceLargest(files,
                     IF files[acc].width > files[i].width THEN acc ELSE i,
                     i + 1)

largestImage(files) == reduceLargest(files, 1, 2)

\* a src that is always the largest image's
groupedSrcIgnoresSrcImage(baseUrl, srcImage, files) ==
  joinPosixPath(baseUrl, files[largestImage(files)].file)

\* srcImage ? join(baseUrl, srcImage) : join(baseUrl, largestImage)
groupedSrc(baseUrl, srcImage, files) ==
  IF Truthy(srcImage)
  THEN joinPosixPath(baseUrl, srcImage)
  ELSE joinPosixPath(baseUrl, files[largestImage(files)].file)

\* lazy ? 'lazy' : 'eager'
loadingSingle(lazy) == IF Truthy(lazy) THEN <<"l", "a", "z", "y">> ELSE <<"e", "a", "g", "e", "r">>

Auto == <<"a", "u", "t", "o">>

\* a loading attribute decided by lazy alone
loadingGroupedLazyOnly(lazy, sizes) ==
  IF Truthy(lazy) THEN <<"l", "a", "z", "y">> ELSE <<"e", "a", "g", "e", "r">>

\* lazy || sizes === 'auto' ? 'lazy' : 'eager'
loadingGrouped(lazy, sizes) ==
  IF Truthy(lazy) \/ sizes = Auto THEN <<"l", "a", "z", "y">> ELSE <<"e", "a", "g", "e", "r">>

\* ${classAttr ? `class="${classAttr}"` : ''}
classPart(classAttr) ==
  IF Truthy(classAttr) THEN << <<"class", classAttr>> >> ELSE <<>>

\* a single-image template with width and height exchanged
singleTagSwapsSize(data, baseUrl, src, classAttr, alt, lazy) ==
  [kind |-> "tag",
   tag |-> << <<"loading", loadingSingle(lazy)>>,
              <<"width", data.height>>,
              <<"height", data.width>>,
              <<"src", joinPosixPath(baseUrl, src)>> >>
           \o classPart(classAttr)
           \o << <<"alt", alt>> >>]

\* the template of the single image: the attributes in the order written
singleTag(data, baseUrl, src, classAttr, alt, lazy) ==
  [kind |-> "tag",
   tag |-> << <<"loading", loadingSingle(lazy)>>,
              <<"width", data.width>>,
              <<"height", data.height>>,
              <<"src", joinPosixPath(baseUrl, src)>> >>
           \o classPart(classAttr)
           \o << <<"alt", alt>> >>]

\* the grouped image: reduce of an empty key list throws a TypeError
groupedTag(data, baseUrl, classAttr, alt, srcImage, lazy, sizes) ==
  IF Len(data.files) = 0 THEN Throw(TypeError, <<>>)
  ELSE
  [kind |-> "tag",
   tag |-> << <<"loading", loadingGrouped(lazy, sizes)>>,
              <<"sizes", sizes>>,
              <<"width", data.files[largestImage(data.files)].width>>,
              <<"height", data.files[largestImage(data.files)].height>>,
              <<"srcset", srcsetOf(baseUrl, data.files)>>,
              <<"src", groupedSrc(baseUrl, srcImage, data.files)>> >>
           \o classPart(classAttr)
           \o << <<"alt", alt>> >>]

\* a validation that looks at src before alt
generateImageTagSrcFirst(imdexer, baseUrl, src, classAttr, alt, srcImage, lazyArg, sizesArg) ==
  LET lazy == Default(lazyArg, False)
      sizes == Default(sizesArg, Auto)
  IN IF ~imdexer.present THEN Throw(MissingIndexError, <<>>)
     ELSE IF ~Truthy(src) THEN Throw(MissingSrcError, src)
     ELSE IF alt = Undefined THEN Throw(MissingAltError, src)
     ELSE IF ~hasKey(imdexer, src) THEN Throw(MissingMetadataError, src)
     ELSE LET data == imdexer.map[src]
          IN IF ~data.hasFiles
             THEN singleTag(data, baseUrl, src, classAttr, alt, lazy)
             ELSE groupedTag(data, baseUrl, classAttr, alt, srcImage, lazy, sizes)

\* generateImageTag(imdexer, baseUrl, src, classAttr, alt, srcImage,
\*                  lazy = false, sizes = 'auto')
generateImageTag(imdexer, baseUrl, src, classAttr, alt, srcImage, lazyArg, sizesArg) ==
  LET lazy == Default(lazyArg, False)
      sizes == Default(sizesArg, Auto)
  IN IF ~imdexer.present THEN Throw(MissingIndexError, <<>>)
     ELSE IF alt = Undefined THEN Throw(MissingAltError, src)
     ELSE IF ~Truthy(src) THEN Throw(MissingSrcError, src)
     ELSE IF ~hasKey(imdexer, src) THEN Throw(MissingMetadataError, src)
     ELSE LET data == imdexer.map[src]
          IN IF ~data.hasFiles
             THEN singleTag(data, baseUrl, src, classAttr, alt, lazy)
             ELSE groupedTag(data, baseUrl, classAttr, alt, srcImage, lazy, sizes)

\* imageShortcode(args): generateImageTag is called with five arguments, so
\* srcImage, lazy and sizes are undefined there
imageShortcode(args, zs) ==
  LET data == getImageData(args.src, zs)
  IN IF data.kind = "throw" THEN data
     ELSE generateImageTag(data.imdexer, data.baseUrl, data.imageSrc,
                           args.class, args.alt, Undefined, Undefined, Undefined)

\* ---------------------------------------------------------------- inputs
Chars == {"a", "/"}

Strings(n) == UNION {[1..k -> Chars] : k \in 0..n}

Paths == Strings(MaxLen)

\* the two shapes of an index entry
Single(w, h) == [hasFiles |-> FALSE, width |-> w, height |-> h, files |-> <<>>]
Grouped(fs) == [hasFiles |-> TRUE, width |-> 0, height |-> 0, files |-> fs]

\* the keys of a files object are distinct: the i-th key is i letters long
FileName(i) == [j \in 1..i |-> "f"]

Heights == {1, 2}

FileLists ==
  UNION {{[i \in 1..n |-> [file |-> FileName(i), width |-> d[i][1], height |-> d[i][2]]]
            : d \in [1..n -> (1..MaxW) \X Heights]}
           : n \in 0..MaxFiles}

Metas ==
  {Single(w, h) : w \in 1..MaxW, h \in Heights} \cup {Grouped(fs) : fs \in FileLists}

\* no imdexer object (undefined), and an index without entries
NoIndex == [present |-> FALSE, map |-> [k \in {} |-> Single(0, 0)]]
EmptyIndex == [present |-> TRUE, map |-> [k \in {} |-> Single(0, 0)]]

Key == <<"k">>

GenIndices ==
  {NoIndex, EmptyIndex} \cup {[present |-> TRUE, map |-> (Key :> m)] : m \in Metas}

GenSrcs == {Undefined, <<>>, Key, <<"x">>}
GenBaseUrls == {<<"h", "/">>, <<"h">>}
ClassVals == {Undefined, <<>>, <<"c">>}
AltVals == {Undefined, <<>>, <<"x">>}
SrcImages == {Undefined, <<>>, FileName(1), <<"z">>}
LazyVals == {Undefined, True, False}
SizesVals == {Undefined, Auto, <<"6", "0", "0", "p", "x">>}

\* the zones the shortcode is registered with
TwoFiles == << [file |-> FileName(1), width |-> 1, height |-> 1],
               [file |-> FileName(2), width |-> 2, height |-> 2] >>
TiedFiles == << [file |-> FileName(1), width |-> 2, height |-> 1],
                [file |-> FileName(2), width |-> 2, height |-> 2] >>

IdxMain ==
  [present |-> TRUE,
   map |-> (<<"a">> :> Grouped(TwoFiles)) @@ (<<"/", "a">> :> Single(2, 1))
           @@ (<<"a", "/", "a">> :> Grouped(TiedFiles))]
IdxAlt ==
  [present |-> TRUE,
   map |-> (<<"a">> :> Single(1, 2)) @@ (<<"/", "a">> :> Grouped(TiedFiles))]

ZonePool ==
  {[prefix |-> <<"a", "/">>, baseUrl |-> <<"h", "/">>, imdexer |-> IdxMain],
   [prefix |-> <<"a">>, baseUrl |-> <<"h">>, imdexer |-> IdxAlt],
   [prefix |-> <<"/">>, baseUrl |-> <<"g">>, imdexer |-> NoIndex],
   [prefix |-> <<>>, baseUrl |-> <<"g", "/">>, imdexer |-> IdxMain]}

\* the zone lists a shortcode is registered with: one zone or more
ZoneLists == UNION {[1..n -> ZonePool] : n \in 1..MaxZones}

\* the named arguments of a shortcode invocation
ArgsSet ==
  [src : Paths \cup {Undefined},
   alt : AltVals,
   class : {Undefined, <<"c">>},
   lazy : LazyVals,
   sizes : SizesVals,
   defaultImage : {Undefined, FileName(1)}]

\* ----------------------------------------------------------- the machine
None == [kind |-> "none"]

Init ==
  /\ pc = "loaded"
  /\ zones = <<>>
  /\ call = [op |-> "none"]
  /\ result = None

\* addImageShortcode(eleventyConfig, shortcodeName, zones): binds the zones
\* the registered imageShortcode closes over
AddImageShortcode ==
  /\ pc = "loaded"
  /\ \E zs \in ZoneLists : zones' = zs
  /\ pc' = "registered"
  /\ call' = [op |-> "addImageShortcode"]
  /\ result' = None

\* the host invokes the registered shortcode
CallImageShortcode ==
  /\ pc = "registered"
  /\ \E args \in ArgsSet :
       /\ call' = [op |-> "imageShortcode", args |-> args]
       /\ result' = imageShortcode(args, zones)
  /\ pc' = "done"
  /\ UNCHANGED zones

CallGetImageData ==
  /\ pc = "loaded"
  /\ \E src \in Paths \cup {Undefined}, zs \in ZoneLists :
       /\ call' = [op |-> "getImageData", src |-> src, zones |-> zs]
       /\ result' = getImageData(src, zs)
  /\ pc' = "done"
  /\ UNCHANGED zones

CallGenerateImageTag ==
  /\ pc = "loaded"
  /\ \E imdexer \in GenIndices, baseUrl \in GenBaseUrls, src \in GenSrcs,
        classAttr \in ClassVals, alt \in AltVals, srcImage \in SrcImages,
        lazy \in LazyVals, sizes \in SizesVals :
       /\ call' = [op |-> "generateImageTag", imdexer |-> imdexer,
                   baseUrl |-> baseUrl, src |-> src, classAttr |-> classAttr,
                   alt |-> alt, srcImage |-> srcImage, lazy |-> lazy,
                   sizes |-> sizes]
       /\ result' = generateImageTag(imdexer, baseUrl, src, classAttr, alt,
                                     srcImage, lazy, sizes)
  /\ pc' = "done"
  /\ UNCHANGED zones

CallJoinPosixPath ==
  /\ pc = "loaded"
  /\ \E path1 \in Paths, path2 \in Paths :
       /\ call' = [op |-> "joinPosixPath", path1 |-> path1, path2 |-> path2]
       /\ result' = [kind |-> "path", path |-> joinPosixPath(path1, path2)]
  /\ pc' = "done"
  /\ UNCHANGED zones

Next ==
  \/ AddImageShortcode
  \/ CallImageShortcode
  \/ CallGetImageData
  \/ CallGenerateImageTag
  \/ CallJoinPosixPath

Spec == Init /\ [][Next]_vars

\* ------------------------------------------------------ reading a result
HasAttr(tag, name) == \E i \in DOMAIN tag : tag[i][1] = name
Attr(tag, name) == tag[CHOOSE i \in DOMAIN tag : tag[i][1] = name][2]

IsTag == result.kind = "tag"
Throws(e) == result.kind = "throw" /\ result.error = e

\* p is a literal prefix of s
IsPrefix(p, s) == \E t \in Strings(Len(s)) : p \o t = s

Min(S) == CHOOSE x \in S : \A y \in S : x <= y
Max(S) == CHOOSE x \in S : \A y \in S : x >= y

\* ---------------------------------------------------------------- claims

\* C1: with two or more zones, getImageData returns the baseUrl and the
\* index of the first zone in list order whose prefix is a literal prefix of
\* the path, with key = the path minus that prefix, also when a later zone
\* has a longer matching prefix; it throws the no-zone error naming the path
\* exactly when no zone's prefix is a prefix of the path.
C1_FirstMatchingZone ==
  (call.op = "getImageData" /\ Len(call.zones) >= 2 /\ call.src # Undefined) =>
    LET zs == call.zones
        M == {i \in 1..Len(zs) : IsPrefix(zs[i].prefix, call.src)}
    IN IF M = {}
       THEN Throws(ZoneNotFoundError) /\ result.subject = call.src
       ELSE /\ result.kind = "data"
            /\ result.baseUrl = zs[Min(M)].baseUrl
            /\ result.imdexer = zs[Min(M)].imdexer
            /\ zs[Min(M)].prefix \o result.imageSrc = call.src

C1_Witness ==
  /\ call.op = "getImageData"
  /\ Len(call.zones) >= 2
  /\ call.src # Undefined
  /\ result.kind = "data"
  /\ \E i, j \in 1..Len(call.zones) :
       /\ i < j
       /\ IsPrefix(call.zones[i].prefix, call.src)
       /\ IsPrefix(call.zones[j].prefix, call.src)
       /\ Len(call.zones[j].prefix) > Len(call.zones[i].prefix)
       /\ result.baseUrl = call.zones[i].baseUrl
       /\ result.baseUrl # call.zones[j].baseUrl

\* C2: with exactly one zone, getImageData never throws and returns that
\* zone's baseUrl and index with key = the path unchanged, whether or not
\* the path starts with the zone's prefix.
C2_SingleZoneShortcut ==
  (call.op = "getImageData" /\ Len(call.zones) = 1) =>
    /\ result.kind = "data"
    /\ result.imageSrc = call.src
    /\ result.baseUrl = call.zones[1].baseUrl
    /\ result.imdexer = call.zones[1].imdexer

C2_Witness ==
  /\ call.op = "getImageData"
  /\ Len(call.zones) = 1
  /\ call.src # Undefined
  /\ ~IsPrefix(call.zones[1].prefix, call.src)
  /\ result.kind = "data"
  /\ result.imageSrc = call.src

\* the call whose result the state holds is generateImageTag on an entry
\* that passes the four validations
GenPasses ==
  /\ call.op = "generateImageTag"
  /\ call.imdexer.present
  /\ call.alt # Undefined
  /\ call.src # Undefined /\ call.src # <<>>
  /\ call.src \in DOMAIN call.imdexer.map

GenData == call.imdexer.map[call.src]

GenGrouped == GenPasses /\ GenData.hasFiles
GenSingle == GenPasses /\ ~GenData.hasFiles

\* the first violated validation of the call, in the order index, alt, src,
\* metadata
FirstViolated ==
  IF ~call.imdexer.present THEN MissingIndexError
  ELSE IF call.alt = Undefined THEN MissingAltError
  ELSE IF call.src = Undefined \/ call.src = <<>> THEN MissingSrcError
  ELSE IF call.src \notin DOMAIN call.imdexer.map THEN MissingMetadataError
  ELSE "none"

\* C3: generateImageTag validates in the order index present, alt not
\* undefined, src non-empty, metadata exists: the error thrown is the one of
\* the first violated condition and no tag is returned; alt = "" never
\* throws the missing-alt error and the tag produced carries alt="".
C3_ValidationOrder ==
  (call.op = "generateImageTag") =>
    /\ FirstViolated # "none" => Throws(FirstViolated)
    /\ call.alt = <<>> => ~Throws(MissingAltError)
    /\ (call.alt = <<>> /\ FirstViolated = "none" /\ ~Throws(TypeError)) =>
         (IsTag /\ Attr(result.tag, "alt") = <<>>)

C3_Witness ==
  /\ call.op = "generateImageTag"
  /\ call.imdexer.present
  /\ call.alt = Undefined
  /\ call.src = <<>>
  /\ Throws(MissingAltError)

\* the positions of the files of maximum width
Widest(fs) == {i \in 1..Len(fs) : \A j \in 1..Len(fs) : fs[j].width <= fs[i].width}

\* C4 (as stated): for a grouped image with no defaultImage, src, width and
\* height come from the file of maximum width and, among several of that
\* width, from the one first in key iteration order.
C4_LargestFirstOnTies ==
  (GenGrouped /\ call.srcImage = Undefined /\ IsTag) =>
    LET fs == GenData.files
        f == fs[Min(Widest(fs))]
    IN /\ Attr(result.tag, "src") = joinPosixPath(call.baseUrl, f.file)
       /\ Attr(result.tag, "width") = f.width
       /\ Attr(result.tag, "height") = f.height

\* C4 (amended): for a grouped image with no defaultImage, src, width and
\* height come from the file of maximum width and, among several of that
\* width, from the one last in key iteration order.
C4_LargestLastOnTies ==
  (GenGrouped /\ ~Truthy(call.srcImage) /\ IsTag) =>
    LET fs == GenData.files
        f == fs[Max(Widest(fs))]
    IN /\ Attr(result.tag, "src") = joinPosixPath(call.baseUrl, f.file)
       /\ Attr(result.tag, "width") = f.width
       /\ Attr(result.tag, "height") = f.height

C4_Witness ==
  /\ GenGrouped
  /\ call.srcImage = Undefined
  /\ IsTag
  /\ Cardinality(Widest(GenData.files)) >= 2
  /\ GenData.files[Min(Widest(GenData.files))].height
       # GenData.files[Max(Widest(GenData.files))].height
  /\ Attr(result.tag, "height") = GenData.files[Max(Widest(GenData.files))].height

\* C5: for a grouped image with a defaultImage, src is join(baseUrl,
\* defaultImage) while width and height are those of the variant of maximum
\* width (the one the reduction selects), whichever file defaultImage names.
\* A defaultImage is a non-empty file path.
C5_DefaultImageKeepsLargestSize ==
  (GenGrouped /\ Truthy(call.srcImage) /\ IsTag) =>
    LET fs == GenData.files
        f == fs[Max(Widest(fs))]
    IN /\ Attr(result.tag, "src") = joinPosixPath(call.baseUrl, call.srcImage)
       /\ Attr(result.tag, "width") = f.width
       /\ Attr(result.tag, "height") = f.height

C5_Witness ==
  /\ GenGrouped
  /\ IsTag
  /\ Len(GenData.files) >= 2
  /\ call.srcImage = GenData.files[1].file
  /\ 1 \notin Widest(GenData.files)
  /\ Attr(result.tag, "src") = joinPosixPath(call.baseUrl, GenData.files[1].file)
  /\ Attr(result.tag, "width") > GenData.files[1].width

Lazy == <<"l", "a", "z", "y">>
Px600 == <<"6", "0", "0", "p", "x">>

\* C6: the tag of a grouped image carries loading="lazy" if and only if
\* lazy is true or sizes is "auto", sizes being "auto" when omitted.
C6_LazyIffLazyOrAuto ==
  (GenGrouped /\ IsTag) =>
    /\ HasAttr(result.tag, "loading")
    /\ (Attr(result.tag, "loading") = Lazy)
         <=> (call.lazy = True \/ call.sizes = Auto \/ call.sizes = Undefined)

C6_Witness ==
  /\ GenGrouped
  /\ IsTag
  /\ call.lazy = Undefined
  /\ call.sizes = Px600
  /\ Attr(result.tag, "loading") # Lazy

\* C9: for a single image whose key is in the index, generateImageTag
\* returns a tag whose width and height are the metadata's, whose src is
\* join(baseUrl, src), whose alt is the alt argument, which has a class
\* attribute if and only if a (non-empty) class was given, and which has no
\* srcset and no sizes attribute.
C9_SingleImageTag ==
  GenSingle =>
    /\ IsTag
    /\ Attr(result.tag, "width") = GenData.width
    /\ Attr(result.tag, "height") = GenData.height
    /\ Attr(result.tag, "src") = joinPosixPath(call.baseUrl, call.src)
    /\ Attr(result.tag, "alt") = call.alt
    /\ HasAttr(result.tag, "class") <=> Truthy(call.classAttr)
    /\ HasAttr(result.tag, "class") => Attr(result.tag, "class") = call.classAttr
    /\ ~HasAttr(result.tag, "srcset")
    /\ ~HasAttr(result.tag, "sizes")
    /\ result.tag[Len(result.tag)][1] = "alt"

C9_Witness ==
  /\ GenSingle
  /\ IsTag
  /\ GenData.width # GenData.height
  /\ call.classAttr = Undefined
  /\ ~HasAttr(result.tag, "class")
  /\ Attr(result.tag, "width") = GenData.width

\* the zone a shortcode invocation resolves to
Resolved == getImageData(call.args.src, zones)

\* the invocation reaches a grouped image
ShortcodeGrouped ==
  /\ call.op = "imageShortcode"
  /\ IsTag
  /\ HasAttr(result.tag, "srcset")

\* C7: the result of a shortcode invocation is the tag generateImageTag
\* builds from the resolved zone and all the named arguments class, alt,
\* lazy, sizes and defaultImage: for a grouped image, sizes = s gives
\* sizes="s", lazy omitted with sizes "600px" gives no loading="lazy", and
\* defaultImage = d gives src = join(baseUrl, d).
C7_ShortcodePassesAllArguments ==
  /\ (call.op = "imageShortcode" /\ Resolved.kind = "data") =>
       result = generateImageTag(Resolved.imdexer, Resolved.baseUrl,
                                 Resolved.imageSrc, call.args.class,
                                 call.args.alt, call.args.defaultImage,
                                 call.args.lazy, call.args.sizes)
  /\ ShortcodeGrouped =>
       /\ call.args.sizes # Undefined =>
            Attr(result.tag, "sizes") = call.args.sizes
       /\ (call.args.lazy = Undefined /\ call.args.sizes = Px600) =>
            Attr(result.tag, "loading") # Lazy
       /\ Truthy(call.args.defaultImage) =>
            Attr(result.tag, "src")
              = joinPosixPath(Resolved.baseUrl, call.args.defaultImage)

NoTrailingSlash(s) == Len(s) = 0 \/ s[Len(s)] # "/"
NoLeadingSlash(s) == Len(s) = 0 \/ s[1] # "/"

\* C8: joinPosixPath of two non-empty arguments is base and rel separated
\* by exactly one '/', for the four combinations of base ending or not in
\* '/' and rel starting or not with '/': with b not ending in '/' and r not
\* starting with '/', join(b, r), join(b/, r), join(b, /r) and join(b/, /r)
\* are all b/r. When either argument is empty the result is the plain
\* concatenation.
C8_JoinOneSeparator ==
  (call.op = "joinPosixPath") =>
    /\ (call.path1 = <<>> \/ call.path2 = <<>>) =>
         result.path = call.path1 \o call.path2
    /\ (call.path1 # <<>> /\ call.path2 # <<>>) =>
         \A b \in Strings(Len(call.path1)), r \in Strings(Len(call.path2)) :
           ( /\ NoTrailingSlash(b)
             /\ NoLeadingSlash(r)
             /\ call.path1 \in {b, b \o <<"/">>}
             /\ call.path2 \in {r, <<"/">> \o r} )
           => result.path = b \o <<"/">> \o r

C8_Witness ==
  /\ call.op = "joinPosixPath"
  /\ call.path1 = <<"a", "/">>
  /\ call.path2 = <<"/", "a">>
  /\ result.path = <<"a", "/", "a">>

\* C10: every shortcode invocation, on zones that each have an index,
\* returns a tag or throws one of the five named errors, and an invocation
\* whose src is absent or empty throws the missing-src error when alt is
\* supplied, whatever the number of zones.
C10_OnlyNamedErrors ==
  (call.op = "imageShortcode" /\ \A i \in DOMAIN zones : zones[i].imdexer.present) =>
    /\ IsTag \/ (result.kind = "throw" /\ result.error \in NamedErrors)
    /\ ((call.args.src = Undefined \/ call.args.src = <<>>)
          /\ call.args.alt # Undefined) =>
         Throws(MissingSrcError)

====
